---- MODULE Spec2Model ----
(***************************************************************************)
(* A model of the ImageVectorizer class of example.ipynb: the object's     *)
(* fields (model, preprocess, img_links, img_vectors, img_titles), its     *)
(* constructor, vectorize_links (as the three phases of its body: reset,   *)
(* one loop iteration with its vectorize and download_image calls, and     *)
(* store-and-return), view_image and image_similarity.                     *)
(*                                                                         *)
(* Indices are Python indices (0-based, negative ones count from the end); *)
(* TLA+ sequences are 1-based, so element i of a list is seq[i+1].         *)
(* Vector components are integers in hundredths: <<100, 1>> is [1, 0.01].  *)
(* Cosine similarities are kept exact, as the reduced fraction             *)
(* sign(u.v) * (u.v)^2 / ((u.u)(v.v)), which orders as the cosine does.    *)
(***************************************************************************)
EXTENDS Integers, Sequences, FiniteSets

\* ---------------------------------------------------------------- bounds

\* longest list of locations handed to vectorize_links
MaxUrls == 3

\* ---------------------------------------------------------------- inputs

None == "None"

\* two feeds of locations, as a metadata source yields them, with their titles
FeedA == <<"a1", "a2", "a3", "a4", "a5">>

FeedB == <<"b1", "b2", "b3", "b4", "b5">>

TitlesA == <<"title a1", "title a2", "title a3", "title a4", "title a5">>

TitlesB == <<"title b1", "title b2", "title b3", "title b4", "title b5">>

\* embeddings the model may return: [1,0], [0,1], [1,0.01], [-1,0]
VecSet == {<<100, 0>>, <<0, 100>>, <<100, 1>>, <<0 - 100, 0>>}

ModelArgs == {None, "custom_model"}

PreprocessArgs == {None, "custom_preprocess"}

\* what the transport answers to one request
Responses ==
  { [status |-> 200, has_length |-> TRUE,  decodable |-> TRUE],
    [status |-> 404, has_length |-> TRUE,  decodable |-> TRUE],
    [status |-> 200, has_length |-> FALSE, decodable |-> TRUE],
    [status |-> 200, has_length |-> TRUE,  decodable |-> FALSE] }

\* the batches handed to vectorize_links: a feed's first n locations
Batches ==
  {[urls |-> SubSeq(FeedA, 1, n), titles |-> SubSeq(TitlesA, 1, n)] : n \in 0..MaxUrls}
  \cup
  {[urls |-> SubSeq(FeedB, 1, n), titles |-> SubSeq(TitlesB, 1, n)] : n \in 0..MaxUrls}

\* the optional argument image_title_list: None, or a list
NoTitleList == [is_none |-> TRUE, list |-> <<>>]

TitleList(l) == [is_none |-> FALSE, list |-> l]

IdxRange == (0 - MaxUrls)..MaxUrls

\* ---------------------------------------------------------------- state

VARIABLES
  model,            \* self.model
  preprocess,       \* self.preprocess
  img_links,        \* self.img_links
  img_vectors,      \* self.img_vectors
  img_titles,       \* self.img_titles
  pc,               \* "fresh", "loop" (inside vectorize_links), "returned", "raised"
  image_url_list,   \* argument of the latest vectorize_links call
  image_title_list, \* argument of the latest vectorize_links call, or None
  goods,            \* local of vectorize_links
  vects,            \* local of vectorize_links
  responses,        \* per location of the latest vectorize_links call: the transport's
                    \* answer and what vectorize made of it
  dl,               \* the latest download_image call: response, return, buffer
  result            \* the latest call on the object and how it ended

vars == <<model, preprocess, img_links, img_vectors, img_titles, pc,
          image_url_list, image_title_list, goods, vects, responses, dl, result>>

\* ---------------------------------------------------------------- helpers

\* list[i] of Python: is i a legal index
PyValid(seq, i) == (0 - Len(seq)) <= i /\ i < Len(seq)

\* list[i] of Python
PyAt(seq, i) == IF i >= 0 THEN seq[i + 1] ELSE seq[Len(seq) + i + 1]

RECURSIVE DotFrom(_, _, _)
DotFrom(u, v, k) == IF k > Len(u) THEN 0 ELSE u[k] * v[k] + DotFrom(u, v, k + 1)

Dot(u, v) == DotFrom(u, v, 1)

RECURSIVE GCD(_, _)
GCD(a, b) == IF b = 0 THEN a ELSE GCD(b, a % b)

\* the float 0.0 that image_similarity stores at the reference position
ZeroScore == [n |-> 0, q |-> 1]

\* 1. - scipy.spatial.distance.cosine(vector1, vector2), for non-zero vectors
CosineSimilarity(vector1, vector2) ==
  LET uv == Dot(vector1, vector2)
      uu == Dot(vector1, vector1)
      vv == Dot(vector2, vector2)
      sq == uv * uv
      q  == uu * vv
      g  == GCD(sq, q)
  IN  [n |-> (IF uv < 0 THEN 0 - 1 ELSE 1) * (sq \div g), q |-> q \div g]

\* a < b on scores
ScoreLess(a, b) == a.n * b.q < b.n * a.q

\* np.argmax: a left-to-right scan that keeps the first maximum (1-based here)
RECURSIVE ArgMaxScan(_, _, _)
ArgMaxScan(s, i, best) ==
  IF i > Len(s) THEN best
  ELSE IF ScoreLess(s[best], s[i]) THEN ArgMaxScan(s, i + 1, i)
  ELSE ArgMaxScan(s, i + 1, best)

\* a scan that keeps the last maximum instead
ArgMaxLast(s) ==
  CHOOSE i \in 1..Len(s) :
    /\ \A j \in 1..Len(s) : ~ScoreLess(s[i], s[j])
    /\ \A j \in (i + 1)..Len(s) : ScoreLess(s[j], s[i])

ArgMax(s) == ArgMaxScan(s, 2, 1)

\* ---------------------------------------------------------------- __init__

Construct(m, p) ==
  /\ pc # "loop"
  /\ IF p # None
     THEN \* self.preprocess = preprocess_fn: no such name, NameError;
          \* the object is never bound, the previous one stays
          /\ result' = [op |-> "__init__", model_arg |-> m, preprocess_arg |-> p,
                        outcome |-> "NameError"]
          /\ UNCHANGED <<model, preprocess, img_links, img_vectors, img_titles, pc,
                         image_url_list, image_title_list, goods, vects, responses, dl>>
     ELSE /\ model' = IF m # None THEN m ELSE "VGG16"
          /\ preprocess' = "vgg16.preprocess_input"
          /\ img_links' = <<>>
          /\ img_vectors' = <<>>
          /\ img_titles' = <<>>
          /\ pc' = "fresh"
          /\ image_url_list' = <<>>
          /\ image_title_list' = NoTitleList
          /\ goods' = <<>>
          /\ vects' = <<>>
          /\ responses' = <<>>
          /\ dl' = [resp |-> None, ret |-> None, buffer |-> "none"]
          /\ result' = [op |-> "__init__", model_arg |-> m, preprocess_arg |-> p,
                        outcome |-> "ok"]

\* ---------------------------------------------------------------- download_image

\* the call's return (an array, None, or the exception raised) and the state
\* in which it leaves the SpooledTemporaryFile it opened
download_image(resp) ==
  IF resp.status # 200 THEN [resp |-> resp, ret |-> None, buffer |-> "open"]
  ELSE IF ~resp.has_length THEN [resp |-> resp, ret |-> "KeyError", buffer |-> "open"]
  ELSE IF ~resp.decodable THEN [resp |-> resp, ret |-> "OSError", buffer |-> "open"]
  ELSE [resp |-> resp, ret |-> "array", buffer |-> "closed"]

Raised(d) == d.ret \in {"KeyError", "OSError"}

\* vectorize: preds[0] (the vector v the model predicts), None, or the exception
vectorize(d, v) ==
  IF Raised(d) THEN [ret |-> d.ret, value |-> <<>>]
  ELSE IF d.ret # None THEN [ret |-> "vector", value |-> v]
  ELSE [ret |-> None, value |-> <<>>]

\* ---------------------------------------------------------------- vectorize_links

\* the reset that forgets to empty the titles
KeepTitles(old_titles, title_list) ==
  IF ~title_list.is_none THEN title_list.list ELSE old_titles

\* self.img_titles after the reset and the optional assignment of the argument
ResetTitles(old_titles, title_list) ==
  IF ~title_list.is_none THEN title_list.list ELSE <<>>

\* the reset, the titles, and the two empty locals; the call's record keeps how
\* many links and titles the reset discarded
VectorizeLinksStart(urls, titles) ==
  /\ pc # "loop"
  /\ img_links' = <<>>
  /\ img_vectors' = <<>>
  /\ img_titles' = ResetTitles(img_titles, titles)
  /\ vects' = <<>>
  /\ goods' = <<>>
  /\ image_url_list' = urls
  /\ image_title_list' = titles
  /\ responses' = <<>>
  /\ pc' = "loop"
  /\ result' = [op |-> "vectorize_links", outcome |-> "running",
                discarded |-> [links |-> Len(img_links), titles |-> Len(img_titles)]]
  /\ UNCHANGED <<model, preprocess, dl>>

\* one iteration of the loop over image_url_list
VectorizeLinksStep(resp, v) ==
  /\ pc = "loop"
  /\ Len(responses) < Len(image_url_list)
  /\ LET url == image_url_list[Len(responses) + 1]
         d   == download_image(resp)
         r   == vectorize(d, v)
     IN  /\ dl' = d
         /\ responses' = Append(responses, [resp |-> resp, ret |-> r.ret, vector |-> r.value])
         /\ IF Raised(d)
            THEN \* the exception leaves vectorize_links: nothing is stored or returned
                 /\ pc' = "raised"
                 /\ result' = [op |-> "vectorize_links", outcome |-> r.ret]
                 /\ UNCHANGED <<goods, vects>>
            ELSE IF r.ret # None
            THEN /\ vects' = Append(vects, r.value)
                 /\ goods' = Append(goods, url)
                 /\ UNCHANGED <<pc, result>>
            ELSE \* print('error:', url)
                 UNCHANGED <<goods, vects, pc, result>>
  /\ UNCHANGED <<model, preprocess, img_links, img_vectors, img_titles,
                 image_url_list, image_title_list>>

\* after the loop: store and return
VectorizeLinksReturn ==
  /\ pc = "loop"
  /\ Len(responses) = Len(image_url_list)
  /\ img_links' = goods
  /\ img_vectors' = vects
  /\ pc' = "returned"
  /\ result' = [op |-> "vectorize_links", outcome |-> "returned",
                links |-> goods, vectors |-> vects]
  /\ UNCHANGED <<model, preprocess, img_titles, image_url_list, image_title_list,
                 goods, vects, responses, dl>>

\* ---------------------------------------------------------------- view_image

view_image(idx) ==
  IF idx > Len(img_vectors) - 1
  THEN [op |-> "view_image", idx |-> idx, outcome |-> "index out of bounds!",
        shown |-> <<>>]
  ELSE IF ~PyValid(img_links, idx)
  THEN [op |-> "view_image", idx |-> idx, outcome |-> "IndexError", shown |-> <<>>]
  ELSE [op |-> "view_image", idx |-> idx, outcome |-> "ok",
        shown |-> <<PyAt(img_links, idx)>>]

ViewImage(idx) ==
  /\ pc # "loop"
  /\ result' = view_image(idx)
  /\ UNCHANGED <<model, preprocess, img_links, img_vectors, img_titles, pc,
                 image_url_list, image_title_list, goods, vects, responses, dl>>

\* ---------------------------------------------------------------- image_similarity

\* sims_vct: the cosine of every vector to the reference, 0.0 at the reference
SimsVct(idx) ==
  [i \in 1..Len(img_vectors) |->
     IF i - 1 # idx
     THEN CosineSimilarity(PyAt(img_vectors, idx), img_vectors[i])
     ELSE ZeroScore]

image_similarity(idx) ==
  IF Len(img_vectors) < 0
  THEN [op |-> "image_similarity", idx |-> idx,
        outcome |-> "please run vectorize_links() first!", best |-> <<>>, title |-> None]
  ELSE IF idx > Len(img_vectors) - 1
  THEN [op |-> "image_similarity", idx |-> idx,
        outcome |-> "index out of bounds!", best |-> <<>>, title |-> None]
  ELSE IF ~PyValid(img_links, idx)
  THEN [op |-> "image_similarity", idx |-> idx,
        outcome |-> "IndexError", best |-> <<>>, title |-> None]
  ELSE LET best_idx == ArgMax(SimsVct(idx)) - 1
       IN  [op |-> "image_similarity", idx |-> idx, outcome |-> "ok",
            best |-> <<best_idx>>,
            title |-> IF Len(img_titles) > best_idx
                      THEN img_titles[best_idx + 1] ELSE None]

ImageSimilarity(idx) ==
  /\ pc # "loop"
  /\ result' = image_similarity(idx)
  /\ UNCHANGED <<model, preprocess, img_links, img_vectors, img_titles, pc,
                 image_url_list, image_title_list, goods, vects, responses, dl>>

\* ---------------------------------------------------------------- specification

\* vgg = ImageVectorizer()
Init ==
  /\ model = "VGG16"
  /\ preprocess = "vgg16.preprocess_input"
  /\ img_links = <<>>
  /\ img_vectors = <<>>
  /\ img_titles = <<>>
  /\ pc = "fresh"
  /\ image_url_list = <<>>
  /\ image_title_list = NoTitleList
  /\ goods = <<>>
  /\ vects = <<>>
  /\ responses = <<>>
  /\ dl = [resp |-> None, ret |-> None, buffer |-> "none"]
  /\ result = [op |-> "__init__", model_arg |-> None, preprocess_arg |-> None,
               outcome |-> "ok"]

Next ==
  \/ \E m \in ModelArgs, p \in PreprocessArgs : Construct(m, p)
  \/ \E b \in Batches, t \in BOOLEAN :
       VectorizeLinksStart(b.urls, IF t THEN TitleList(b.titles) ELSE NoTitleList)
  \/ \E resp \in Responses, v \in VecSet : VectorizeLinksStep(resp, v)
  \/ VectorizeLinksReturn
  \/ \E idx \in IdxRange : ViewImage(idx)
  \/ \E idx \in IdxRange : ImageSimilarity(idx)

Spec == Init /\ [][Next]_vars

\* ---------------------------------------------------------------- properties

\* a fetch succeeded: status 200, a content-length header, a decodable body
Success(resp) == resp.status = 200 /\ resp.has_length /\ resp.decodable

\* the input positions (1-based) whose fetch succeeded, in input order
RECURSIVE OkPositionsFrom(_, _)
OkPositionsFrom(log, k) ==
  IF k > Len(log) THEN <<>>
  ELSE IF Success(log[k].resp) THEN <<k>> \o OkPositionsFrom(log, k + 1)
  ELSE OkPositionsFrom(log, k + 1)

OkPositions == OkPositionsFrom(responses, 1)

FilteredLinks == [i \in 1..Len(OkPositions) |-> image_url_list[OkPositions[i]]]

FilteredVectors == [i \in 1..Len(OkPositions) |-> responses[OkPositions[i]].vector]

FilteredTitles == [i \in 1..Len(OkPositions) |-> image_title_list.list[OkPositions[i]]]

ValidIdx(idx) == 0 <= idx /\ idx < Len(img_vectors)

\* the score the reference r gives to position j (both 0-based)
ScoreOf(r, j) ==
  IF j = r THEN ZeroScore ELSE CosineSimilarity(img_vectors[r + 1], img_vectors[j + 1])

\* j is the lowest index attaining the maximum score for the reference r
LowestMax(r, j) ==
  /\ \A k \in 0..(Len(img_vectors) - 1) : ~ScoreLess(ScoreOf(r, j), ScoreOf(r, k))
  /\ \A k \in 0..(j - 1) : ScoreLess(ScoreOf(r, k), ScoreOf(r, j))

ScenarioVectors == << <<100, 0>>, <<0, 100>>, <<100, 1>> >>

\* C1: for a valid reference index r in a non-empty collection, image_similarity
\* never selects r itself as the best index.
C1_NeverSelectsReference ==
  (result.op = "image_similarity" /\ ValidIdx(result.idx))
    => (result.best # <<result.idx>>)

\* C2: after a rebuild with a parallel title list in which K fetches succeed, the
\* stored locations, titles and vectors all have length K and entry i of each
\* comes from the i-th successful input position.
C2_ParallelAfterRebuild ==
  (pc = "returned" /\ ~image_title_list.is_none)
    => /\ Len(img_links) = Len(OkPositions)
       /\ Len(img_vectors) = Len(OkPositions)
       /\ Len(img_titles) = Len(OkPositions)
       /\ img_links = FilteredLinks
       /\ img_vectors = FilteredVectors
       /\ img_titles = FilteredTitles

\* C3: view_image and image_similarity called with a negative index, or one at
\* or beyond the collection size, end in the index-out-of-range error outcome,
\* with no record looked up and no result produced.
C3_BadIndexIsAnError ==
  (/\ result.op \in {"view_image", "image_similarity"}
   /\ (result.idx < 0 \/ result.idx >= Len(img_vectors)))
    => /\ result.outcome \in {"index out of bounds!", "IndexError"}
       /\ (result.op = "view_image" => result.shown = <<>>)
       /\ (result.op = "image_similarity" => result.best = <<>>)

\* C4: image_similarity on an empty collection ends in the empty-collection
\* outcome ("please run vectorize_links() first!") for every reference index.
C4_EmptyCollectionOutcome ==
  (result.op = "image_similarity" /\ Len(img_vectors) = 0)
    => result.outcome = "please run vectorize_links() first!"

\* C5: a rebuild, whatever positions fail, stores and returns exactly the
\* locations whose fetch succeeded and their vectors, in input order.
C5_RebuildFiltersBySuccess ==
  (pc \in {"returned", "raised"})
    => /\ img_links = FilteredLinks
       /\ img_vectors = FilteredVectors
       /\ (result.op = "vectorize_links"
             => /\ result.outcome = "returned"
                /\ result.links = FilteredLinks
                /\ result.vectors = FilteredVectors)

\* C6: every kind of fetch failure makes download_image return None instead of
\* raising, and the rebuild goes on with the remaining locations.
C6_FailureReturnsNone ==
  (dl.buffer # "none" /\ ~Success(dl.resp))
    => (dl.ret = None /\ pc # "raised")

\* C7: constructing with a caller-supplied preprocessing function succeeds and
\* installs that function; without one the VGG16 preprocessing is installed; the
\* same holds for the model argument.
C7_ConstructorInstallsArguments ==
  (result.op = "__init__")
    => /\ result.outcome = "ok"
       /\ preprocess = (IF result.preprocess_arg # None THEN result.preprocess_arg
                        ELSE "vgg16.preprocess_input")
       /\ model = (IF result.model_arg # None THEN result.model_arg ELSE "VGG16")

\* C8: for a valid reference index in a non-empty collection, the selected best
\* index is the lowest index attaining the maximum of the score list that holds
\* 0.0 at the reference and the cosine similarity to the reference elsewhere;
\* for the vectors [1,0], [0,1], [1,0.01] it is 2 from reference 0 and 0 from
\* reference 2.
C8_BestIsLowestMaximum ==
  (result.op = "image_similarity" /\ ValidIdx(result.idx))
    => /\ result.outcome = "ok"
       /\ Len(result.best) = 1
       /\ result.best[1] \in 0..(Len(img_vectors) - 1)
       /\ LowestMax(result.idx, result.best[1])
       /\ (img_vectors = ScenarioVectors /\ result.idx = 0 => result.best = <<2>>)
       /\ (img_vectors = ScenarioVectors /\ result.idx = 2 => result.best = <<0>>)

C8_Witness ==
  /\ result.op = "image_similarity"
  /\ img_vectors = ScenarioVectors
  /\ result.idx = 0
  /\ result.best = <<2>>

\* C9: every call of download_image closes the temporary buffer it opened
\* before the call ends, on every outcome.
C9_BufferClosed == dl.buffer # "open"

\* C10: a rebuild discards the prior contents at its start: while it runs, and
\* after it raised, the stored locations and vectors are empty and the titles
\* are this call's title list (empty when none was passed); after it returned,
\* locations and vectors are those of this call's successful fetches.
C10_RebuildDiscardsPrior ==
  /\ (pc \in {"loop", "raised"})
       => /\ img_links = <<>>
          /\ img_vectors = <<>>
  /\ (pc \in {"loop", "raised", "returned"})
       => img_titles = (IF image_title_list.is_none THEN <<>> ELSE image_title_list.list)
  /\ (pc = "returned")
       => /\ img_links = FilteredLinks
          /\ img_vectors = FilteredVectors

\* inside a rebuild without titles that discarded links and titles of an
\* earlier batch and has already fetched a location of its own
C10_Witness ==
  /\ pc = "loop"
  /\ result.op = "vectorize_links"
  /\ result.discarded.links > 0
  /\ result.discarded.titles > 0
  /\ image_title_list.is_none
  /\ goods # <<>>
  /\ img_titles = <<>>

====
